---- MODULE Spec2Model ----
(***************************************************************************)
(* A model of lib/upgrade/upgrade_supported.go: release selection, the     *)
(* bounded archive scan, the name-bound signature check and the on-disk    *)
(* swap of the running binary.                                             *)
(*                                                                         *)
(* Strings are modelled as sequences of tokens, so that concatenation,     *)
(* prefix tests and path.Base/path.Dir are computed and not assumed.       *)
(***************************************************************************)
EXTENDS Integers, Sequences, FiniteSets, TLC

\* ------------------------------------------------------------------ bounds

\* Longest archive (in members) of the enumerated archives.
MaxLen == 2
\* How many upgradeToURL invocations one behaviour makes.
MaxCalls == 1
\* How many free temp file names the target directory offers.
MaxTemps == 2
\* Longest release list passed to SelectLatestRelease.
MaxRels == 2

\* --------------------------------------------------------------- constants

maxBinarySize == 67108864
maxArchiveMembers == 100

\* The processes that may call upgradeToURL on the same target path.
Procs == {"p1", "p2"}

\* ------------------------------------------------------------ path helpers

\* Index of the last "/" of a path, 0 when it has none.
LastSlash(s) ==
    LET idx == {k \in 1..Len(s) : s[k] = "/"}
    IN  IF idx = {} THEN 0 ELSE CHOOSE k \in idx : \A j \in idx : j <= k

\* path.Base of a clean path without trailing slash.
PathBase(s) ==
    IF Len(s) = 0 THEN <<".">> ELSE SubSeq(s, LastSlash(s) + 1, Len(s))

\* path.Dir of a clean path.
PathDir(s) ==
    IF LastSlash(s) = 0 THEN <<".">>
    ELSE IF LastSlash(s) = 1 THEN <<"/">>
    ELSE SubSeq(s, 1, LastSlash(s) - 1)

\* len(strings.Split(s, "/")): one more piece than separators.
SplitLen(s) == 1 + Cardinality({k \in 1..Len(s) : s[k] = "/"})

\* strings.HasPrefix
HasPrefix(s, prefix) ==
    /\ Len(prefix) <= Len(s)
    /\ SubSeq(s, 1, Len(prefix)) = prefix

\* strings.Contains(s, c) for a one-token needle.
Contains(s, c) == \E k \in 1..Len(s) : s[k] = c

\* ------------------------------------------------------------- file system

\* The target binary path, and binary + ".old".
Binary == "syncthing"
Old == "syncthing.old"
\* The names ioutil.TempFile(dir, "syncthing") can hand out, in the target's
\* directory.  "" is Go's empty string: no temp file.
TempNameSeq ==
    <<"syncthing001", "syncthing002", "syncthing003", "syncthing004",
      "syncthing005", "syncthing006">>
TempNames == {TempNameSeq[k] : k \in 1..MaxTemps}
NoName == ""

\* A directory is a function from the paths that exist to their content.
Exists(fl, path) == path \in DOMAIN fl

\* os.Remove on a path that exists.
RemoveFile(fl, path) == [q \in DOMAIN fl \ {path} |-> fl[q]]

\* A successful os.Rename(from, to): atomic, replaces what is at `to`.
RenameFile(fl, from, to) ==
    [q \in (DOMAIN fl \ {from}) \cup {to} |-> IF q = to THEN fl[from] ELSE fl[q]]

\* A file written and closed by writeBinary.
CreateFile(fl, path, data) ==
    [q \in DOMAIN fl \cup {path} |-> IF q = path THEN data ELSE fl[q]]

\* The empty directory.
NoFiles == [q \in {} |-> <<>>]

\* Whether two directories agree on a path: both lack it or both hold the
\* same bytes.
SameAt(fl, gl, path) ==
    /\ Exists(fl, path) <=> Exists(gl, path)
    /\ Exists(fl, path) => fl[path] = gl[path]

\* ----------------------------------------------------------------- inputs

\* File contents.
CurBytes == <<"c">>
PrevBytes == <<"p">>
XBytes == <<"x">>
YBytes == <<"y">>

\* Archive names (path.Base of the asset name).
NameA == <<"syncthing-linux-amd64-v2", ".tar.gz">>
NameB == <<"syncthing-linux-amd64-v1", ".tar.gz">>
ArchiveNames == {NameA, NameB}

\* Faulty variant of Payload: the archive name is left out.
PayloadWithoutName(an, data) == data

\* The payload verifyUpgrade builds with io.MultiReader: the archive name, a
\* newline, the temp file's content.
Payload(an, data) == an \o <<"\n">> \o data

\* The signature primitive, opaque: a signature is made over one payload and
\* signature.Verify accepts exactly the signatures made over the data read.
SignatureOver(data) == <<"sig", data>>
GarbageSig == <<"garbage">>
NilSig == <<"nil">>
SignatureVerify(sg, data) == sg = SignatureOver(data)

Member(name, size, data) == [name |-> name, size |-> size, data |-> data]

BinX == Member(<<"syncthing">>, 1, XBytes)
BinY == Member(<<"syncthing">>, maxBinarySize, YBytes)
DirBinX == Member(<<"syncthing-linux-amd64-v2", "/", "syncthing">>, 1, XBytes)
DeepBinY == Member(<<"a", "/", "b", "/", "syncthing">>, 1, YBytes)
ExeBinY == Member(<<"syncthing.exe">>, 1, YBytes)
SigAX == Member(<<"release.sig">>, 1, SignatureOver(Payload(NameA, XBytes)))
SigAY == Member(<<"a", "/", "b", "/", "release.sig">>, 1, SignatureOver(Payload(NameA, YBytes)))
SigBad == Member(<<"release.sig">>, 1, GarbageSig)
Readme == Member(<<"README.txt">>, 1, <<"r">>)
Huge == Member(<<"syncthing">>, maxBinarySize + 1, XBytes)

Members == {BinX, BinY, DirBinX, DeepBinY, ExeBinY, SigAX, SigAY, SigBad, Readme, Huge}

\* The archives a download can deliver: every sequence of at most MaxLen
\* members.
ShortArchives == UNION {[1..n -> Members] : n \in 0..MaxLen}

\* n innocuous members.
Pad(n) == [k \in 1..n |-> Readme]

\* Archives around the member cap: a binary and its signature after 98, 99,
\* 100 and 101 innocuous members.
LongArchives ==
    {Pad(n) \o <<BinX, SigAX>> : n \in (maxArchiveMembers - 2)..(maxArchiveMembers + 1)}

\* Archives in which a member name comes twice: two binaries before the
\* signature, two signatures before the binary, and a binary or a signature
\* after both were found.
RepeatArchives ==
    {<<ExeBinY, BinX, SigAX>>, <<BinX, BinX, SigBad>>, <<SigBad, SigAX, BinX>>,
     <<BinX, SigAX, BinY>>, <<BinX, SigAX, SigBad>>}

Archives == ShortArchives \cup LongArchives \cup RepeatArchives

\* ------------------------------------------------------------------ errors

ErrNil == "nil"
ErrHTTP == "http error"
ErrNotArchive == "not an archive"
ErrArchiveRead == "archive read error"
ErrWrite == "write error"
ErrNoUpgrade == "no upgrade found"
ErrNoSignature == "no signature found"
ErrOpen == "open error"
ErrSignature == "signature invalid"
ErrRenameBackup == "rename binary to old failed"
ErrRenamePromote == "rename temp to binary failed"

\* The errors readRelease can return.
ReadReleaseErrors ==
    {ErrHTTP, ErrNotArchive, ErrArchiveRead, ErrWrite, ErrNoUpgrade,
     ErrNoSignature, ErrOpen, ErrSignature}

\* A response body is a JSON text; a JSON value carries its JSON type.
JString(s) == [kind |-> "string", val |-> s]
JBool(b) == [kind |-> "bool", val |-> IF b THEN <<"true">> ELSE <<"false">>]
JArray(a) == [kind |-> "array", val |-> a]
\* A body that is not one JSON value: a syntax error, or a text cut off by
\* the io.LimitReader of maxMetadataSize.
Malformed == [kind |-> "malformed", val |-> <<>>]
\* A body that is a JSON object, such as an API error message.
ErrorObject == [kind |-> "object", val |-> <<"message">>]

\* No request was made.
NoResponse == [transport |-> "none", status |-> 0, body |-> Malformed]

\* ------------------------------------------------------------------- state

VARIABLES
    goos,         \* runtime.GOOS of the build
    guard,        \* whether the caller holds its "upgrade in progress" lock
    faults,       \* whether the system may refuse a remove or rename it could do
    files,        \* the target directory: path -> bytes, for the paths that exist
    calls,        \* upgradeToURL invocations started so far
    pc,           \* per process: where its upgradeToURL invocation stands
    archiveName,  \* per process: the archiveName argument
    archive,      \* per process: the members of the downloaded archive
    i,            \* per process: the scan loop's counter i
    tempName,     \* per process: tempName of readTarGz / readZip
    sig,          \* per process: sig of readTarGz / readZip
    err,          \* per process: the error upgradeToURL returns
    pre,          \* per process: the directory as it was when the call began
    ops,          \* per process: the file system calls upgradeToURL made, in order
    selPc,        \* where the call of SelectLatestRelease stands
    version,      \* its argument version
    given,        \* its argument rels as the caller passed it
    rels,         \* the slice rels, which sort.Sort reorders in place
    selected,     \* what it returns: a release and an error
    resp          \* the metadata endpoint's answer to FetchLatestReleases

selVars == <<selPc, version, given, rels, selected, resp>>

upgradeVars ==
    <<files, calls, pc, archiveName, archive, i, tempName, sig, err, pre, ops>>

\* What no operation of the package changes.
envVars == <<goos, guard, faults>>

vars == <<envVars, upgradeVars, selVars>>

\* Release{}
EmptyRelease == [Tag |-> <<>>, Prerelease |-> FALSE, Assets |-> <<>>]

\* No call of SelectLatestRelease is made.
SelectionAtRest ==
    /\ selPc = "idle"
    /\ version = <<>>
    /\ given = <<>>
    /\ rels = <<>>
    /\ selected = [rel |-> EmptyRelease, err |-> ErrNil]
    /\ resp = NoResponse

Init ==
    /\ SelectionAtRest
    /\ goos \in {"linux", "windows"}
    /\ guard = TRUE
    /\ faults = TRUE
    /\ files \in {[q \in {Binary} |-> CurBytes],
                  [q \in {Binary, Old} |-> IF q = Binary THEN CurBytes ELSE PrevBytes]}
    /\ calls = 0
    /\ pc = [p \in Procs |-> "idle"]
    /\ archiveName = [p \in Procs |-> <<>>]
    /\ archive = [p \in Procs |-> <<>>]
    /\ i = [p \in Procs |-> 0]
    /\ tempName = [p \in Procs |-> NoName]
    /\ sig = [p \in Procs |-> NilSig]
    /\ err = [p \in Procs |-> ErrNil]
    /\ pre = [p \in Procs |-> NoFiles]
    /\ ops = [p \in Procs |-> <<>>]

\* ---------------------------------------------------------- pure functions

\* writeBinary's ioutil.TempFile: a name of the directory that is not taken.
FreeTempNames(fl) == TempNames \ DOMAIN fl

\* Faulty variant of IsBinaryMember: the depth of the member is not tested.
IsBinaryMemberAtAnyDepth(name) ==
    PathBase(name) \in {<<"syncthing">>, <<"syncthing.exe">>}

\* archiveFileVisitor's switch: whether the member is taken as the binary.
IsBinaryMember(name) ==
    /\ PathBase(name) \in {<<"syncthing">>, <<"syncthing.exe">>}
    /\ ~(SplitLen(PathDir(name)) > 1)

\* archiveFileVisitor's switch: whether the member is taken as the signature.
IsSignatureMember(name) == PathBase(name) = <<"release.sig">>

\* Faulty variant of verifyUpgrade: the error of signature.Verify is dropped.
verifyUpgradeUnchecked(an, tn, sg, fl) ==
    IF tn = NoName THEN ErrNoUpgrade
    ELSE IF sg = NilSig THEN ErrNoSignature
    ELSE IF ~Exists(fl, tn) THEN ErrOpen
    ELSE ErrNil

\* verifyUpgrade's result for the given arguments and directory.
verifyUpgrade(an, tn, sg, fl) ==
    IF tn = NoName THEN ErrNoUpgrade
    ELSE IF sg = NilSig THEN ErrNoSignature
    ELSE IF ~Exists(fl, tn) THEN ErrOpen
    ELSE IF ~SignatureVerify(sg, Payload(an, fl[tn])) THEN ErrSignature
    ELSE ErrNil

\* Faulty variant of verifyUpgradeFiles: the temp file is removed on every
\* error, the precondition failures included.
verifyUpgradeFilesCleaningAlways(an, tn, sg, fl) ==
    IF verifyUpgrade(an, tn, sg, fl) # ErrNil /\ Exists(fl, tn) THEN RemoveFile(fl, tn) ELSE fl

\* The directory after verifyUpgrade: the temp file is removed when the
\* signature check fails.
verifyUpgradeFiles(an, tn, sg, fl) ==
    IF verifyUpgrade(an, tn, sg, fl) = ErrSignature THEN RemoveFile(fl, tn) ELSE fl

\* Faulty variant of afterReadRelease: the error is not tested.
afterReadReleaseIgnoringError(e) == "remove"

\* upgradeToURL after readRelease: return its error, or go on to the swap.
afterReadRelease(e) == IF e # ErrNil THEN "done" ELSE "remove"

\* What the system may answer to a remove or rename it could do: yes, and,
\* where it is let to refuse (a busy file, a permission), no.
Outcomes == IF faults THEN BOOLEAN ELSE {TRUE}

\* Whether os.Rename(from, ...) succeeds: never without the source, and with
\* it as the system allows (ok).
RenameSucceeds(fl, from, ok) == ok /\ Exists(fl, from)

\* Faulty variant of removeOldFiles: the binary is removed, not binary + ".old".
removeOldFilesWrongPath(fl, ok) ==
    IF ok /\ Exists(fl, Binary) THEN RemoveFile(fl, Binary) ELSE fl

\* The directory after os.Remove(old): old is gone when the system allows it.
removeOldFiles(fl, ok) == IF ok /\ Exists(fl, Old) THEN RemoveFile(fl, Old) ELSE fl

\* Faulty variant of renameBackupFiles: the binary is removed from the target
\* path and not put at the backup path.
renameBackupFilesWithoutBackup(fl, ok) ==
    IF RenameSucceeds(fl, Binary, ok) THEN RemoveFile(fl, Binary) ELSE fl

\* The directory after os.Rename(binary, old).
renameBackupFiles(fl, ok) ==
    IF RenameSucceeds(fl, Binary, ok) THEN RenameFile(fl, Binary, Old) ELSE fl

\* Faulty variant of afterRenameBackup: the error is not tested.
afterRenameBackupIgnoringError(succeeded) == "promote"

\* upgradeToURL after os.Rename(binary, old): return its error, or go on.
afterRenameBackup(succeeded) == IF succeeded THEN "promote" ELSE "done"

\* Faulty variant of renamePromoteFiles: the temp file is copied, not renamed.
renamePromoteFilesByCopy(fl, fname, ok) ==
    IF RenameSucceeds(fl, fname, ok) THEN CreateFile(fl, Binary, fl[fname]) ELSE fl

\* Variant of renamePromoteFiles that rolls back: on failure the backup is
\* renamed to the target path again.
renamePromoteFilesWithRollback(fl, fname, ok) ==
    IF RenameSucceeds(fl, fname, ok) THEN RenameFile(fl, fname, Binary)
    ELSE IF Exists(fl, Old) THEN RenameFile(fl, Old, Binary)
    ELSE fl

\* The directory after os.Rename(fname, binary); a failure is returned as it
\* is, nothing is undone.
renamePromoteFiles(fl, fname, ok) ==
    IF RenameSucceeds(fl, fname, ok) THEN RenameFile(fl, fname, Binary) ELSE fl

\* Faulty variant of tooLarge: a member of exactly the maximum is refused.
tooLargeFromMax(size) == size >= maxBinarySize

\* The scan loops' test of a member's declared size.
tooLarge(size) == size > maxBinarySize

\* Faulty variant of capReached: one member more is examined.
capReachedLate(n) == n > maxArchiveMembers

\* The scan loops' test of the member counter: if i >= maxArchiveMembers.
capReached(n) == n >= maxArchiveMembers

\* ----------------------------------------------------------------- actions

\* readRelease fails with e, which upgradeToURL tests and returns.
Fail(p, e) ==
    /\ err' = [err EXCEPT ![p] = e]
    /\ pc' = [pc EXCEPT ![p] = afterReadRelease(e)]

\* upgradeToURL is called and readRelease fetches the asset: the request or
\* the archive's header (gzip.NewReader; ioutil.ReadAll and zip.NewReader)
\* may fail, otherwise the reader stands before the first member.
BeginWith(p, maxCalls, names, bodies) ==
    /\ pc[p] = "idle"
    /\ calls < maxCalls
    /\ calls' = calls + 1
    /\ \E an \in names, body \in bodies, e \in {ErrNil, ErrHTTP, ErrNotArchive} :
        /\ archiveName' = [archiveName EXCEPT ![p] = an]
        /\ IF e # ErrNil
              THEN /\ Fail(p, e)
                   /\ UNCHANGED archive
              ELSE /\ archive' = [archive EXCEPT ![p] = body]
                   /\ pc' = [pc EXCEPT ![p] = "scan"]
                   /\ UNCHANGED err
    /\ pre' = [pre EXCEPT ![p] = files]
    /\ UNCHANGED <<selVars, envVars, files, i, tempName, sig, ops>>

\* A call with any of the archive names and archives.
Begin(p) == BeginWith(p, MaxCalls, ArchiveNames, Archives)

\* The scan loop is left (break): verifyUpgrade is next.
LeaveScan(p) == pc' = [pc EXCEPT ![p] = "verify"]

\* Faulty variant of afterVisit: the scan goes on to the end of the archive.
afterVisitToTheEnd(tn, sg) == "scan"

\* The loops' test after a visit: break once a binary and a signature are held.
afterVisit(tn, sg) == IF tn # NoName /\ sg # NilSig THEN "verify" ELSE "scan"

\* archiveFileVisitor on member m, then the loop's test of tempName and sig.
Visit(p, m) ==
    IF IsBinaryMember(m.name)
    THEN \/ \* writeBinary fails: nothing of its file is left, the error is returned
            /\ Fail(p, ErrWrite)
            /\ UNCHANGED <<files, tempName, sig>>
         \/ \* writeBinary succeeds under a new name (the first free one stands
            \* for any: the names are interchangeable)
            /\ FreeTempNames(files) # {}
            /\ LET t == TempNameSeq[CHOOSE k \in 1..MaxTemps :
                            /\ TempNameSeq[k] \in FreeTempNames(files)
                            /\ \A j \in 1..(k - 1) : TempNameSeq[j] \notin FreeTempNames(files)]
               IN  /\ files' = CreateFile(files, t, m.data)
                   /\ tempName' = [tempName EXCEPT ![p] = t]
                   /\ pc' = [pc EXCEPT ![p] = afterVisit(t, sig[p])]
            /\ UNCHANGED <<sig, err>>
    ELSE IF IsSignatureMember(m.name)
    THEN \/ \* ioutil.ReadAll fails
            /\ Fail(p, ErrArchiveRead)
            /\ UNCHANGED <<files, tempName, sig>>
         \/ /\ sig' = [sig EXCEPT ![p] = m.data]
            /\ pc' = [pc EXCEPT ![p] = afterVisit(tempName[p], m.data)]
            /\ UNCHANGED <<files, tempName, err>>
    ELSE UNCHANGED <<files, tempName, sig, err, pc>>

\* One iteration of readTarGz's loop.
ScanTarGz(p) ==
    /\ pc[p] = "scan"
    /\ goos # "windows"
    /\ IF capReached(i[p])
       THEN /\ LeaveScan(p)
            /\ UNCHANGED <<i, files, tempName, sig, err>>
       ELSE /\ i' = [i EXCEPT ![p] = i[p] + 1]
            /\ \/ \* tr.Next fails
                  /\ Fail(p, ErrArchiveRead)
                  /\ UNCHANGED <<files, tempName, sig>>
               \/ \* io.EOF
                  /\ i[p] + 1 > Len(archive[p])
                  /\ LeaveScan(p)
                  /\ UNCHANGED <<files, tempName, sig, err>>
               \/ /\ i[p] + 1 <= Len(archive[p])
                  /\ LET hdr == archive[p][i[p] + 1]
                     IN  IF tooLarge(hdr.size)
                         THEN /\ LeaveScan(p)
                              /\ UNCHANGED <<files, tempName, sig, err>>
                         ELSE Visit(p, hdr)
    /\ UNCHANGED <<selVars, envVars, calls, archiveName, archive, pre, ops>>

\* One iteration of readZip's loop over archive.File.
ScanZip(p) ==
    /\ pc[p] = "scan"
    /\ goos = "windows"
    /\ IF i[p] >= Len(archive[p]) \/ capReached(i[p])
       THEN /\ LeaveScan(p)
            /\ UNCHANGED <<i, files, tempName, sig, err>>
       ELSE /\ i' = [i EXCEPT ![p] = i[p] + 1]
            /\ LET file == archive[p][i[p] + 1]
               IN  IF tooLarge(file.size)
                   THEN /\ LeaveScan(p)
                        /\ UNCHANGED <<files, tempName, sig, err>>
                   ELSE \/ \* file.Open fails
                           /\ Fail(p, ErrArchiveRead)
                           /\ UNCHANGED <<files, tempName, sig>>
                        \/ Visit(p, file)
    /\ UNCHANGED <<selVars, envVars, calls, archiveName, archive, pre, ops>>

\* verifyUpgrade at the end of the reader, and upgradeToURL's test of the
\* error readRelease returns.
Verify(p) ==
    /\ pc[p] = "verify"
    /\ LET e == verifyUpgrade(archiveName[p], tempName[p], sig[p], files)
       IN  /\ files' = verifyUpgradeFiles(archiveName[p], tempName[p], sig[p], files)
           /\ err' = [err EXCEPT ![p] = e]
           /\ pc' = [pc EXCEPT ![p] = afterReadRelease(e)]
    /\ UNCHANGED <<selVars, envVars, calls, archiveName, archive, i, tempName, sig, pre, ops>>

\* os.Remove(old); its error is ignored.
RemoveOld(p) ==
    /\ pc[p] = "remove"
    /\ ops' = [ops EXCEPT ![p] = Append(ops[p], "remove old")]
    /\ \E ok \in Outcomes : files' = removeOldFiles(files, ok)
    /\ pc' = [pc EXCEPT ![p] = "backup"]
    /\ UNCHANGED <<selVars, envVars, calls, archiveName, archive, i, tempName, sig, err, pre>>

\* err = os.Rename(binary, old), and the return on its error.
RenameBackup(p) ==
    /\ pc[p] = "backup"
    /\ ops' = [ops EXCEPT ![p] = Append(ops[p], "rename binary to old")]
    /\ \E ok \in Outcomes :
        /\ files' = renameBackupFiles(files, ok)
        /\ pc' = [pc EXCEPT ![p] = afterRenameBackup(RenameSucceeds(files, Binary, ok))]
        /\ err' = [err EXCEPT ![p] =
                     IF RenameSucceeds(files, Binary, ok) THEN err[p] ELSE ErrRenameBackup]
    /\ UNCHANGED <<selVars, envVars, calls, archiveName, archive, i, tempName, sig, pre>>

\* err = os.Rename(fname, binary), and the return.
RenamePromote(p) ==
    /\ pc[p] = "promote"
    /\ ops' = [ops EXCEPT ![p] = Append(ops[p], "rename temp to binary")]
    /\ \E ok \in Outcomes :
        /\ files' = renamePromoteFiles(files, tempName[p], ok)
        /\ pc' = [pc EXCEPT ![p] = "done"]
        /\ err' = [err EXCEPT ![p] =
                     IF RenameSucceeds(files, tempName[p], ok) THEN err[p] ELSE ErrRenamePromote]
    /\ UNCHANGED <<selVars, envVars, calls, archiveName, archive, i, tempName, sig, pre>>

\* upgradeToURL has returned; the caller may call again.
Return(p) ==
    /\ pc[p] = "done"
    /\ pc' = [pc EXCEPT ![p] = "idle"]
    /\ archiveName' = [archiveName EXCEPT ![p] = <<>>]
    /\ archive' = [archive EXCEPT ![p] = <<>>]
    /\ i' = [i EXCEPT ![p] = 0]
    /\ tempName' = [tempName EXCEPT ![p] = NoName]
    /\ sig' = [sig EXCEPT ![p] = NilSig]
    /\ err' = [err EXCEPT ![p] = ErrNil]
    /\ pre' = [pre EXCEPT ![p] = NoFiles]
    /\ ops' = [ops EXCEPT ![p] = <<>>]
    /\ UNCHANGED <<selVars, envVars, files, calls>>

\* The caller's obligation: one upgrade at a time.
NoUpgradeInProgress == \A q \in Procs : pc[q] = "idle"

BeginSerialized(p) == NoUpgradeInProgress /\ Begin(p)

Next ==
    \E p \in Procs :
        \/ BeginSerialized(p)
        \/ ScanTarGz(p)
        \/ ScanZip(p)
        \/ Verify(p)
        \/ RemoveOld(p)
        \/ RenameBackup(p)
        \/ RenamePromote(p)
        \/ Return(p)

Spec == Init /\ [][Next]_vars

\* ------------------------------------------------------- release selection

ErrNoVersionToSelect == "no version to select"
ErrNoReleaseDownload == "no release download available"

\* Release tags.  "2" and "v2" name the same version.
TagV1 == <<"v", "1">>
TagV2 == <<"v", "2">>
Tag2 == <<"2">>
Tags == {TagV1, TagV2, Tag2}

\* The number a tag stands for: its last token.
VersionNumber(tag) ==
    IF tag[Len(tag)] = "1" THEN 1 ELSE IF tag[Len(tag)] = "2" THEN 2 ELSE 0

\* CompareVersions: negative, zero or positive, a total order of the versions.
CompareVersions(a, b) == VersionNumber(a) - VersionNumber(b)

\* releaseName: the prefix expected of an asset of the release tagged `tag`
\* on the running platform.
releaseName(tag) == <<"syncthing-", goos, "-", "amd64", "-">> \o tag \o <<".">>

\* The running version: a stable one, and one with a "-" suffix.
Versions == {<<"v", "1">>, <<"v", "1", "-", "rc", "1">>}

AssetNamed(name) == [Name |-> name, URL |-> <<"https://x/">> \o name]

\* The archive of release `tag` for operating system `os`.
PlatformArchive(os, tag) == <<"syncthing-", os, "-", "amd64", "-">> \o tag \o <<".", "tar.gz">>

\* The asset lists a release of tag `tag` may carry: its linux archive under a
\* directory; its windows archive; a file whose directory, not its base name,
\* starts like the linux archive; the windows archive before the linux one.
AssetLists(tag) ==
    {<<AssetNamed(<<"dl", "/">> \o PlatformArchive("linux", tag))>>,
     <<AssetNamed(PlatformArchive("windows", tag))>>,
     <<AssetNamed(PlatformArchive("linux", tag) \o <<"/", "notes.txt">>)>>,
     <<AssetNamed(PlatformArchive("windows", tag)),
       AssetNamed(PlatformArchive("linux", tag))>>}

Releases ==
    UNION {{[Tag |-> t, Prerelease |-> b, Assets |-> a] : b \in BOOLEAN, a \in AssetLists(t)} :
             t \in Tags}

\* The release lists a caller may pass.
ReleaseLists == UNION {[1..n -> Releases] : n \in 0..MaxRels}

\* Faulty variant of Less: ascending.
LessAscending(a, b) == CompareVersions(a.Tag, b.Tag) < 0

\* SortByRelease.Less on two releases.
Less(a, b) == CompareVersions(a.Tag, b.Tag) > 0

\* What sort.Sort(SortByRelease(rels)) may leave in rels: a permutation of it
\* in which no release stands before one that is Less than it the other way
\* round.  sort.Sort does not promise stability, and is not stable on the long
\* lists a release feed delivers, so every such permutation is an outcome.
SortOutcomes(s) ==
    LET perms == {f \in [1..Len(s) -> 1..Len(s)] : \A a, b \in 1..Len(s) : a # b => f[a] # f[b]}
        sorted(t) == \A a, b \in 1..Len(t) : a < b => ~Less(t[b], t[a])
    IN  {t \in {[k \in 1..Len(s) |-> s[f[k]]] : f \in perms} : sorted(t)}

\* Faulty variant of assetMatches: the asset's whole name, not its base name,
\* is tested.
RECURSIVE assetMatchesFullName(_, _)
assetMatchesFullName(rel, k) ==
    IF k > Len(rel.Assets) THEN FALSE
    ELSE IF HasPrefix(rel.Assets[k].Name, releaseName(rel.Tag)) THEN TRUE
    ELSE assetMatchesFullName(rel, k + 1)

\* The inner loop of SelectLatestRelease from asset k on: whether an asset's
\* base name starts with the release's expected prefix.
RECURSIVE assetMatches(_, _)
assetMatches(rel, k) ==
    IF k > Len(rel.Assets) THEN FALSE
    ELSE IF HasPrefix(PathBase(rel.Assets[k].Name), releaseName(rel.Tag)) THEN TRUE
    ELSE assetMatches(rel, k + 1)

\* beta := strings.Contains(version, "-")
isBeta(v) == Contains(v, "-")

\* Faulty variant of skipped: the test of beta is inverted.
skippedWhenBeta(rel, beta) == rel.Prerelease /\ beta

\* Whether the outer loop skips the release.
skipped(rel, beta) == rel.Prerelease /\ ~beta

\* The outer loop of SelectLatestRelease over the sorted rels, from index k on.
RECURSIVE selectFrom(_, _, _)
selectFrom(s, beta, k) ==
    IF k > Len(s) THEN [rel |-> EmptyRelease, err |-> ErrNoReleaseDownload]
    ELSE IF skipped(s[k], beta) THEN selectFrom(s, beta, k + 1)
    ELSE IF assetMatches(s[k], 1) THEN [rel |-> s[k], err |-> ErrNil]
    ELSE selectFrom(s, beta, k + 1)

\* SelectLatestRelease(version, rels)
SelectLatestRelease ==
    /\ selPc = "call"
    /\ selPc' = "returned"
    /\ IF Len(rels) = 0
       THEN /\ selected' = [rel |-> EmptyRelease, err |-> ErrNoVersionToSelect]
            /\ UNCHANGED rels
       ELSE \E s \in SortOutcomes(rels) :
                /\ rels' = s
                /\ selected' = selectFrom(s, isBeta(version), 1)
    /\ UNCHANGED <<envVars, upgradeVars, version, given, resp>>

\* ---------------------------------------------------- the metadata fetch

\* The JSON record of a release: its tag, its prerelease flag (a JSON boolean,
\* or a JSON string where a feed writes the flag as text) and its assets.
JRelease(tag, flag, assets) == [tag |-> JString(tag), prerelease |-> flag, assets |-> JArray(assets)]
JAsset(name) == [name |-> JString(name), url |-> JString(<<"https://x/">> \o name)]

JReleases ==
    {JRelease(t, f, <<JAsset(PlatformArchive(os, t))>>) :
        t \in {TagV1, TagV2},
        f \in {JBool(TRUE), JBool(FALSE), JString(<<"yes">>)},
        os \in {"linux", "windows"}}

Bodies ==
    {Malformed, ErrorObject}
        \cup {JArray(a) : a \in UNION {[1..n -> JReleases] : n \in 0..MaxRels}}

Statuses == {200, 299, 300, 404}

\* What insecureHTTP.Get may deliver: an error, or a status and a body.
Responses ==
    {[transport |-> "error", status |-> 0, body |-> Malformed]}
        \cup {[transport |-> "ok", status |-> st, body |-> b] : st \in Statuses, b \in Bodies}

\* json: a field whose JSON value has the type of the Go field is stored; one
\* that has not is skipped, the Go field keeps its zero value, and decoding
\* goes on with an error to return at the end.
decodeString(j) == IF j.kind = "string" THEN j.val ELSE <<>>
decodeBool(j) == IF j.kind = "bool" THEN j.val = <<"true">> ELSE FALSE
decodeAsset(j) == [Name |-> decodeString(j.name), URL |-> decodeString(j.url)]
decodeRelease(j) ==
    [Tag |-> decodeString(j.tag),
     Prerelease |-> decodeBool(j.prerelease),
     Assets |-> [k \in 1..Len(j.assets.val) |-> decodeAsset(j.assets.val[k])]]

\* Decode(&rels): what is left in rels.  A malformed text is refused before
\* anything is stored, and so is a value that is not an array.
decodeRels(body) ==
    IF body.kind = "array"
    THEN [k \in 1..Len(body.val) |-> decodeRelease(body.val[k])]
    ELSE <<>>

\* Whether Decode(&rels) returns an error, which FetchLatestReleases drops.
decodeFails(body) ==
    \/ body.kind # "array"
    \/ \E k \in 1..Len(body.val) :
          \/ body.val[k].tag.kind # "string"
          \/ body.val[k].prerelease.kind # "bool"

\* What FetchLatestReleases returns for a response.
fetchReleases(r) ==
    IF r.transport = "error" THEN <<>>
    ELSE IF r.status > 299 THEN <<>>
    ELSE decodeRels(r.body)

\* FetchLatestReleases, as LatestRelease calls it before SelectLatestRelease.
FetchLatestReleases ==
    /\ selPc = "fetch"
    /\ selPc' = "call"
    /\ given' = fetchReleases(resp)
    /\ rels' = fetchReleases(resp)
    /\ UNCHANGED <<envVars, upgradeVars, version, selected, resp>>

\* A caller holds a version and either a release list, and calls
\* SelectLatestRelease, or a releases URL, and calls LatestRelease; no upgrade
\* runs.
InitSelect ==
    /\ goos \in {"linux", "windows"}
    /\ guard = TRUE
    /\ faults = TRUE
    /\ files = [q \in {Binary} |-> CurBytes]
    /\ calls = 0
    /\ pc = [p \in Procs |-> "idle"]
    /\ archiveName = [p \in Procs |-> <<>>]
    /\ archive = [p \in Procs |-> <<>>]
    /\ i = [p \in Procs |-> 0]
    /\ tempName = [p \in Procs |-> NoName]
    /\ sig = [p \in Procs |-> NilSig]
    /\ err = [p \in Procs |-> ErrNil]
    /\ pre = [p \in Procs |-> NoFiles]
    /\ ops = [p \in Procs |-> <<>>]
    /\ version \in Versions
    /\ \/ /\ selPc = "call"
          /\ resp = NoResponse
          /\ given \in ReleaseLists
       \/ /\ selPc = "fetch"
          /\ resp \in Responses
          /\ given = <<>>
    /\ rels = given
    /\ selected = [rel |-> EmptyRelease, err |-> ErrNil]

NextSelect == FetchLatestReleases \/ SelectLatestRelease

SpecSelect == InitSelect /\ [][NextSelect]_vars

\* ------------------------------------------------- the installer's claims

\* The swap steps upgradeToURL makes when nothing fails.
SwapSteps == <<"remove old", "rename binary to old", "rename temp to binary">>

\* Among the members the scan has read, one taken as the binary holds `data`.
BinaryCaptured(p, data) ==
    \E k \in 1..i[p] :
        /\ k <= Len(archive[p])
        /\ IsBinaryMember(archive[p][k].name)
        /\ archive[p][k].data = data

\* Among the members the scan has read, one taken as the signature holds sig[p].
SignatureCaptured(p) ==
    \E k \in 1..i[p] :
        /\ k <= Len(archive[p])
        /\ IsSignatureMember(archive[p][k].name)
        /\ archive[p][k].data = sig[p]

\* `data` is a binary of p's archive that p's signature accepts under p's
\* archive name.
VerifiedNew(p, data) ==
    /\ BinaryCaptured(p, data)
    /\ SignatureCaptured(p)
    /\ SignatureVerify(sig[p], Payload(archiveName[p], data))

\* The bytes at the target path change to bytes that are there afterwards.
TargetReplaced == Exists(files', Binary) /\ ~SameAt(files', files, Binary)

\* C1: the target path comes to hold new bytes only by the promotion rename of
\* an invocation that captured both a binary member and a signature member and
\* whose signature verifies over archiveName, newline, temp file content; the
\* bytes installed are that temp file's.
C1_InstallOnlyVerified ==
    [][TargetReplaced =>
         \E p \in Procs :
            /\ pc[p] = "promote"
            /\ tempName[p] # NoName
            /\ sig[p] # NilSig
            /\ Exists(files, tempName[p])
            /\ VerifiedNew(p, files[tempName[p]])
            /\ files'[Binary] = files[tempName[p]]]_vars

\* An invocation has installed a binary of its archive.
C1_Witness ==
    \E p \in Procs :
        /\ pc[p] = "done"
        /\ err[p] = ErrNil
        /\ Exists(files, Binary)
        /\ files[Binary] # CurBytes
        /\ Len(archive[p]) = 2

\* C2: once readRelease has failed, upgradeToURL has returned with that error,
\* has made no file system call of the swap, and the target path and the backup
\* path are as they were when the call began.
C2_ReadReleaseFailureLeavesFiles ==
    \A p \in Procs :
        err[p] \in ReadReleaseErrors =>
            /\ pc[p] = "done"
            /\ ops[p] = <<>>
            /\ SameAt(files, pre[p], Binary)
            /\ SameAt(files, pre[p], Old)

\* A call on a directory with a backup has failed for want of a signature.
C2_Witness ==
    \E p \in Procs :
        /\ pc[p] = "done"
        /\ err[p] = ErrNoSignature
        /\ Exists(pre[p], Old)
        /\ Exists(files, Old)

\* C3 as stated: during and after an invocation the target path holds the
\* previous binary or the verified new one, never nothing.
C3_AtomicReplacement ==
    \A p \in Procs :
        pc[p] # "idle" =>
            /\ Exists(files, Binary)
            /\ \/ SameAt(files, pre[p], Binary)
               \/ VerifiedNew(p, files[Binary])

\* C3 amended: the target path holds the previous binary, or (once the
\* invocation has succeeded) the verified new binary, or nothing; it holds
\* nothing only from the successful rename to the backup path until a
\* successful promotion, for good when the promotion fails, and the backup
\* path then holds the previous binary.
C3_ReplacementWithGap ==
    \A p \in Procs :
        pc[p] # "idle" =>
            \/ SameAt(files, pre[p], Binary)
            \/ /\ pc[p] = "done"
               /\ err[p] = ErrNil
               /\ Exists(files, Binary)
               /\ VerifiedNew(p, files[Binary])
            \/ /\ pc[p] = "promote" \/ (pc[p] = "done" /\ err[p] = ErrRenamePromote)
               /\ ~Exists(files, Binary)
               /\ Exists(pre[p], Binary)
               /\ Exists(files, Old)
               /\ files[Old] = pre[p][Binary]

\* The target path is empty between the two renames.
C3_Witness ==
    \E p \in Procs :
        /\ pc[p] = "promote"
        /\ ~Exists(files, Binary)
        /\ Exists(files, Old)

\* C4: when upgradeToURL returns success the target path holds the verified
\* temp binary's bytes, the backup path holds the bytes the target path held
\* before the call, the temp path is gone, and the file system steps were:
\* remove old, rename binary to old, rename temp to binary.
C4_SuccessfulSwap ==
    \A p \in Procs :
        (pc[p] = "done" /\ err[p] = ErrNil) =>
            /\ Exists(files, Binary)
            /\ VerifiedNew(p, files[Binary])
            /\ Exists(pre[p], Binary)
            /\ Exists(files, Old)
            /\ files[Old] = pre[p][Binary]
            /\ tempName[p] # NoName
            /\ ~Exists(files, tempName[p])
            /\ ops[p] = SwapSteps

\* A successful call on a directory that had a backup: the backup is superseded.
C4_Witness ==
    \E p \in Procs :
        /\ pc[p] = "done"
        /\ err[p] = ErrNil
        /\ Exists(pre[p], Old)
        /\ files[Old] # pre[p][Old]

\* C5: when the rename of the binary to the backup path fails, upgradeToURL
\* has returned that error, the target path is as before the call, the
\* promotion rename was not attempted and the verified temp file is on disk.
C5_BackupRenameFailure ==
    \A p \in Procs :
        err[p] = ErrRenameBackup =>
            /\ pc[p] = "done"
            /\ SameAt(files, pre[p], Binary)
            /\ ops[p] = SubSeq(SwapSteps, 1, 2)
            /\ tempName[p] # NoName
            /\ Exists(files, tempName[p])
            /\ VerifiedNew(p, files[tempName[p]])

\* The rename to the backup path has failed with the binary in place.
C5_Witness ==
    \E p \in Procs :
        /\ pc[p] = "done"
        /\ err[p] = ErrRenameBackup
        /\ Exists(files, Binary)

\* C6: when the backup rename succeeded and the promotion rename fails,
\* upgradeToURL returns that error and undoes nothing: the backup path holds
\* the previous binary, the target path holds nothing, the temp file is on
\* disk under its temp name.
C6_PromotionFailure ==
    \A p \in Procs :
        err[p] = ErrRenamePromote =>
            /\ pc[p] = "done"
            /\ ops[p] = SwapSteps
            /\ Exists(pre[p], Binary)
            /\ Exists(files, Old)
            /\ files[Old] = pre[p][Binary]
            /\ ~Exists(files, Binary)
            /\ tempName[p] # NoName
            /\ Exists(files, tempName[p])
            /\ VerifiedNew(p, files[tempName[p]])

\* The promotion rename has failed.
C6_Witness ==
    \E p \in Procs :
        /\ pc[p] = "done"
        /\ err[p] = ErrRenamePromote
        /\ ~Exists(files, Binary)

\* C7 as stated: after an invocation that returns an error, a backup that
\* existed before the call is still there or has been replaced by the binary
\* that was running before the call.
C7_BackupSurvivesFailure ==
    \A p \in Procs :
        (pc[p] = "done" /\ err[p] # ErrNil /\ Exists(pre[p], Old)) =>
            /\ Exists(files, Old)
            /\ \/ files[Old] = pre[p][Old]
               \/ Exists(pre[p], Binary) /\ files[Old] = pre[p][Binary]

\* ------------------------------------------------- the selection's claims

\* A release is eligible: any when the version contains "-", only the ones
\* not flagged prerelease otherwise.
Eligible(rel) == Contains(version, "-") \/ ~rel.Prerelease

\* The release has an asset whose base name starts with the platform prefix
\* of the release's tag.
HasPlatformAsset(rel) ==
    \E k \in 1..Len(rel.Assets) :
        HasPrefix(PathBase(rel.Assets[k].Name), releaseName(rel.Tag))

\* The places of the given list that hold an eligible release with such an asset.
Candidates == {k \in 1..Len(given) : Eligible(given[k]) /\ HasPlatformAsset(given[k])}

Returned == selPc = "returned" /\ Len(given) > 0

\* The fetch was made and failed: in transport, by status, or in decoding.
FetchFailed ==
    /\ selPc \in {"call", "returned"}
    /\ \/ resp.transport = "error"
       \/ /\ resp.transport = "ok"
          /\ resp.status > 299 \/ decodeFails(resp.body)

\* C8: for a non-empty list with an eligible release that has a platform
\* asset, the release returned is such a release of the list, and no such
\* release of the list has a higher version.
C8_HighestEligibleMatch ==
    (Returned /\ Candidates # {}) =>
        /\ selected.err = ErrNil
        /\ \E k \in Candidates : selected.rel = given[k]
        /\ \A j \in Candidates : CompareVersions(given[j].Tag, selected.rel.Tag) <= 0

\* The list held a lower release with a platform asset before a higher one.
C8_Witness ==
    /\ Returned
    /\ selected.err = ErrNil
    /\ \E j, k \in Candidates :
        /\ j < k
        /\ CompareVersions(given[j].Tag, given[k].Tag) < 0

\* C9: when the version contains no "-", the release returned is never
\* flagged prerelease: the result is a release of the list that is not
\* prerelease and has a platform asset, or the error NoReleaseDownload.
C9_NoPrereleaseForStable ==
    (Returned /\ ~Contains(version, "-")) =>
        /\ ~selected.rel.Prerelease
        /\ \/ /\ selected.err = ErrNil
              /\ \E k \in 1..Len(given) :
                    /\ selected.rel = given[k]
                    /\ ~given[k].Prerelease
                    /\ HasPlatformAsset(given[k])
           \/ /\ selected.err = ErrNoReleaseDownload
              /\ selected.rel = EmptyRelease

\* A stable version, and a prerelease with a platform asset that is newer
\* than every stable release of the list.
C9_Witness ==
    /\ Returned
    /\ ~Contains(version, "-")
    /\ \E k \in 1..Len(given) :
        /\ given[k].Prerelease
        /\ HasPlatformAsset(given[k])
        /\ \E j \in 1..Len(given) : ~given[j].Prerelease /\ HasPlatformAsset(given[j])
        /\ \A j \in 1..Len(given) :
              ~given[j].Prerelease => CompareVersions(given[k].Tag, given[j].Tag) > 0

\* C10: for a non-empty list the error is NoReleaseDownload exactly when no
\* eligible release has a platform asset, and a release returned has one.
C10_NoReleaseDownloadIff ==
    Returned =>
        /\ selected.err \in {ErrNil, ErrNoReleaseDownload}
        /\ selected.err = ErrNoReleaseDownload <=> Candidates = {}
        /\ selected.err = ErrNil =>
              /\ \E k \in 1..Len(given) : selected.rel = given[k]
              /\ HasPlatformAsset(selected.rel)

\* Every asset of the list is named for another platform.
C10_Witness ==
    /\ Returned
    /\ selected.err = ErrNoReleaseDownload
    /\ \A k \in 1..Len(given) :
        /\ Eligible(given[k])
        /\ Len(given[k].Assets) = 1
        /\ given[k].Assets[1].Name = PlatformArchive(IF goos = "linux" THEN "windows" ELSE "linux", given[k].Tag)

\* C11 as stated: after any failure of the metadata fetch FetchLatestReleases
\* has returned an empty sequence, and LatestRelease returns NoVersionToSelect
\* with no release.
C11_FetchFailureIsEmpty ==
    FetchFailed =>
        /\ given = <<>>
        /\ selPc = "returned" =>
              /\ selected.err = ErrNoVersionToSelect
              /\ selected.rel = EmptyRelease

\* ------------------------------------------------- the extractor's claims

\* This step's visit of a member by p wrote a temp file and set tempName.
Captures(p) == tempName'[p] # NoName /\ tempName'[p] # tempName[p]

\* The member the scan of p has just taken from the archive.
Visited(p) == archive[p][i'[p]]

\* The binary name of the host platform.
HostBinaryName == IF goos = "windows" THEN "syncthing.exe" ELSE "syncthing"

\* The member's path is a binary name alone, or one directory name, a slash
\* and a binary name; the binary name is either platform's.
TopOrOneDirDeep(name) ==
    \/ /\ Len(name) = 1
       /\ name[1] \in {"syncthing", "syncthing.exe"}
    \/ /\ Len(name) = 3
       /\ name[1] # "/"
       /\ name[2] = "/"
       /\ name[3] \in {"syncthing", "syncthing.exe"}

\* C12 as stated: a member is written to a temp file only if its whole path
\* is the host platform's binary name.
C12_TopLevelHostNameOnly ==
    [][\A p \in Procs : Captures(p) => Visited(p).name = <<HostBinaryName>>]_vars

\* C12 amended: a member is written to a temp file only if its base name is
\* syncthing or syncthing.exe (either, on every platform) and it lies at the
\* top level or directly in one directory, and then the temp file holds its
\* content; a member within the size limit that is so named is written unless
\* the visit fails.
C12_BinaryNameAtMostOneDirDeep ==
    [][\A p \in Procs :
         /\ Captures(p) =>
              /\ TopOrOneDirDeep(Visited(p).name)
              /\ files'[tempName'[p]] = Visited(p).data
         /\ (/\ pc[p] = "scan"
             /\ i'[p] = i[p] + 1
             /\ i'[p] <= Len(archive[p])
             /\ Visited(p).size <= maxBinarySize
             /\ TopOrOneDirDeep(Visited(p).name)
             /\ err'[p] = ErrNil) => Captures(p)]_vars

\* Members the claim excludes have been captured: on linux one named
\* syncthing.exe, and one inside a directory.
C12_Witness ==
    \E p \in Procs :
        /\ goos = "linux"
        /\ pc[p] \in {"scan", "verify"}
        /\ i[p] = 2
        /\ archive[p] = <<ExeBinY, DirBinX>>
        /\ tempName[p] # NoName
        /\ Exists(files, tempName[p])
        /\ files[tempName[p]] = XBytes

\* The member is named like a binary or like the signature.
NamedLikeFind(m) ==
    PathBase(m.name) \in {<<"syncthing">>, <<"syncthing.exe">>, <<"release.sig">>}

\* The first n members of p's archive are innocuous: within the size limit
\* and named neither like a binary nor like the signature.
InnocuousUpTo(p, n) ==
    \A k \in 1..n :
        k <= Len(archive[p]) =>
            /\ ~NamedLikeFind(archive[p][k])
            /\ archive[p][k].size <= maxBinarySize

\* Errors of transport and I/O, which end a scan wherever it stands.
IOErrors == {ErrHTTP, ErrNotArchive, ErrArchiveRead, ErrWrite, ErrOpen}

\* C13: the scan examines at most maxArchiveMembers members; a temp file or a
\* signature held comes from one of the first maxArchiveMembers members; with
\* more than maxArchiveMembers members of which the first maxArchiveMembers
\* are innocuous the invocation ends, I/O errors aside, with no upgrade found;
\* with a binary captured among the first maxArchiveMembers and no member
\* named release.sig among them it ends, I/O errors aside, with no signature
\* found.
C13_MemberCap ==
    \A p \in Procs :
        /\ i[p] <= maxArchiveMembers
        /\ tempName[p] # NoName =>
              \E k \in 1..maxArchiveMembers :
                  /\ k <= Len(archive[p])
                  /\ PathBase(archive[p][k].name) \in {<<"syncthing">>, <<"syncthing.exe">>}
        /\ sig[p] # NilSig =>
              \E k \in 1..maxArchiveMembers :
                  /\ k <= Len(archive[p])
                  /\ PathBase(archive[p][k].name) = <<"release.sig">>
                  /\ archive[p][k].data = sig[p]
        /\ (/\ pc[p] = "done"
            /\ err[p] \notin IOErrors
            /\ Len(archive[p]) > maxArchiveMembers) =>
              /\ InnocuousUpTo(p, maxArchiveMembers) => err[p] = ErrNoUpgrade
              /\ (/\ tempName[p] # NoName
                  /\ \A k \in 1..maxArchiveMembers :
                        PathBase(archive[p][k].name) # <<"release.sig">>)
                    => err[p] = ErrNoSignature

\* A scan has stopped at the cap before a binary and its signature.
C13_Witness ==
    \E p \in Procs :
        /\ pc[p] = "done"
        /\ err[p] = ErrNoUpgrade
        /\ i[p] = maxArchiveMembers
        /\ Len(archive[p]) > maxArchiveMembers + 1
        /\ archive[p][maxArchiveMembers + 1] = BinX
        /\ archive[p][maxArchiveMembers + 2] = SigAX

\* The places of p's archive whose member declares more than maxBinarySize.
Oversize(p) == {k \in 1..Len(archive[p]) : archive[p][k].size > maxBinarySize}

\* The first place of a non-empty set of places.
FirstOf(S) == CHOOSE k \in S : \A j \in S : k <= j

\* C14: with the first oversize member at place h, the scan takes no member
\* after h; a temp file or signature held comes from a member before h; the
\* step that reaches h leaves the loop for verifyUpgrade without an error of
\* its own, so the invocation ends, I/O errors aside, with no upgrade found
\* when no binary was captured before h and with no signature found when a
\* binary but no signature was; and a top-level binary of exactly
\* maxBinarySize that the scan has passed was captured.
C14_OversizeMemberStopsScan ==
    \A p \in Procs :
        /\ Oversize(p) # {} =>
              LET h == FirstOf(Oversize(p))
              IN  /\ i[p] <= h
                  /\ tempName[p] # NoName =>
                        \E k \in 1..(h - 1) :
                            /\ PathBase(archive[p][k].name) \in {<<"syncthing">>, <<"syncthing.exe">>}
                            /\ Exists(files, tempName[p]) => files[tempName[p]] = archive[p][k].data
                  /\ sig[p] # NilSig =>
                        \E k \in 1..(h - 1) :
                            /\ PathBase(archive[p][k].name) = <<"release.sig">>
                            /\ archive[p][k].data = sig[p]
                  /\ i[p] = h =>
                        /\ pc[p] \in {"verify", "done"}
                        /\ (pc[p] = "done" /\ err[p] # ErrArchiveRead) =>
                              /\ tempName[p] = NoName => err[p] = ErrNoUpgrade
                              /\ tempName[p] # NoName => (sig[p] = NilSig /\ err[p] = ErrNoSignature)
        /\ \A k \in 1..i[p] :
              (/\ k <= Len(archive[p])
               /\ archive[p][k].size = maxBinarySize
               /\ Len(archive[p][k].name) = 1
               /\ archive[p][k].name[1] \in {"syncthing", "syncthing.exe"}
               /\ k < i[p] \/ pc[p] # "done" \/ err[p] \notin IOErrors)
                  => tempName[p] # NoName

\* A binary of exactly the maximum was captured, an oversize member named
\* like the binary then ended the scan, and no signature was found.
C14_Witness ==
    \E p \in Procs :
        /\ pc[p] = "done"
        /\ err[p] = ErrNoSignature
        /\ archive[p] = <<BinY, Huge>>
        /\ i[p] = 2
        /\ Exists(files, tempName[p])
        /\ files[tempName[p]] = YBytes

\* ------------------------------------------------- the verifier's claims

\* This step is p's call of verifyUpgrade.
Verifies(p) == pc[p] = "verify" /\ pc'[p] # "verify"

\* C15: a call of verifyUpgrade that fails on the signature removes the temp
\* file and nothing else; one that succeeds leaves the directory as it is,
\* the temp file in it; one that fails a precondition leaves the directory as
\* it is, and does so whatever the signature is: no upgrade found exactly
\* when no binary was located, no signature found exactly when a binary but
\* no signature was.
C15_TempFileFate ==
    [][\A p \in Procs :
         Verifies(p) =>
            /\ err'[p] = ErrSignature =>
                  /\ pc'[p] = "done"
                  /\ Exists(files, tempName[p])
                  /\ files' = RemoveFile(files, tempName[p])
            /\ err'[p] = ErrNil =>
                  /\ Exists(files', tempName[p])
                  /\ files' = files
            /\ err'[p] = ErrNoUpgrade <=> tempName[p] = NoName
            /\ err'[p] = ErrNoSignature <=> (tempName[p] # NoName /\ sig[p] = NilSig)
            /\ err'[p] \in {ErrNoUpgrade, ErrNoSignature} =>
                  /\ pc'[p] = "done"
                  /\ files' = files]_vars

\* A binary was written, no signature was found, and the temp file is still
\* on disk after the invocation.
C15_Witness ==
    \E p \in Procs :
        /\ pc[p] = "done"
        /\ err[p] = ErrNoSignature
        /\ tempName[p] # NoName
        /\ Exists(files, tempName[p])
        /\ archive[p] = <<BinX, Readme>>

\* -------------------------------------------- verifyUpgrade on its inputs

\* Archive names and binaries, among them a name that ends as a binary
\* begins, with a newline between: NameA, newline, "x".
VerifyNames == {NameA, NameB, NameA \o <<"\n">> \o XBytes}
VerifyData == {XBytes, YBytes, XBytes \o <<"\n">> \o YBytes}

\* The signature the release key makes for archive name an and binary data.
SignedFor(an, data) == SignatureOver(an \o <<"\n">> \o data)

VerifySignatures == {SignedFor(an, data) : an \in VerifyNames, data \in VerifyData} \cup {GarbageSig}

\* The scan of p1 has captured a binary and a signature from a two-member
\* archive and verifyUpgrade is about to be called.
InitVerify ==
    /\ SelectionAtRest
    /\ goos \in {"linux", "windows"}
    /\ guard = TRUE
    /\ faults = TRUE
    /\ calls = 1
    /\ pre = [p \in Procs |-> IF p = "p1" THEN [q \in {Binary} |-> CurBytes] ELSE NoFiles]
    /\ ops = [p \in Procs |-> <<>>]
    /\ err = [p \in Procs |-> ErrNil]
    /\ pc = [p \in Procs |-> IF p = "p1" THEN "verify" ELSE "idle"]
    /\ i = [p \in Procs |-> IF p = "p1" THEN 2 ELSE 0]
    /\ tempName = [p \in Procs |-> IF p = "p1" THEN TempNameSeq[1] ELSE NoName]
    /\ \E an \in VerifyNames, data \in VerifyData, sg \in VerifySignatures :
        /\ archiveName = [p \in Procs |-> IF p = "p1" THEN an ELSE <<>>]
        /\ archive = [p \in Procs |->
                        IF p = "p1"
                        THEN <<Member(<<"syncthing">>, 1, data), Member(<<"release.sig">>, 1, sg)>>
                        ELSE <<>>]
        /\ sig = [p \in Procs |-> IF p = "p1" THEN sg ELSE NilSig]
        /\ files = CreateFile([q \in {Binary} |-> CurBytes], TempNameSeq[1], data)

NextVerify ==
    \E p \in Procs :
        \/ Verify(p)
        \/ RemoveOld(p)
        \/ RenameBackup(p)
        \/ RenamePromote(p)
        \/ Return(p)

SpecVerify == InitVerify /\ [][NextVerify]_vars

\* verifyUpgrade has accepted p's binary and signature.
Accepted(p) ==
    \/ pc[p] \in {"remove", "backup", "promote"}
    \/ pc[p] = "done" /\ err[p] \in {ErrNil, ErrRenameBackup, ErrRenamePromote}

\* C16: once verifyUpgrade has been called with archive name A, a temp file
\* of bytes B and a signature, it has accepted exactly when the signature is
\* the one made for (A, B); a signature made for another name and the same
\* bytes, or for the same name and other bytes, is rejected as invalid with
\* the temp file removed, so that the same signature and binary are not
\* accepted under two archive names.
C16_SignatureBoundToName ==
    \A p \in Procs :
        (pc[p] \notin {"idle", "verify"}) =>
            LET A == archiveName[p]
                B == archive[p][1].data
            IN  /\ Accepted(p) <=> sig[p] = SignedFor(A, B)
                /\ \A A2 \in VerifyNames, B2 \in VerifyData :
                      (/\ sig[p] = SignedFor(A2, B2)
                       /\ (A2 # A /\ B2 = B) \/ (A2 = A /\ B2 # B)) =>
                          /\ pc[p] = "done"
                          /\ err[p] = ErrSignature
                          /\ ~Exists(files, tempName[p])
                          /\ files[Binary] = CurBytes
                /\ Accepted(p) =>
                      \A A2 \in VerifyNames \ {A} :
                          verifyUpgrade(A2, tempName[p], sig[p], CreateFile(files, tempName[p], B))
                              = ErrSignature

\* The signature made for NameA and the bytes "x" was presented with NameB
\* and the same bytes, and was rejected.
C16_Witness ==
    \E p \in Procs :
        /\ pc[p] = "done"
        /\ err[p] = ErrSignature
        /\ archiveName[p] = NameB
        /\ archive[p][1].data = XBytes
        /\ sig[p] = SignedFor(NameA, XBytes)

\* ------------------------------------------- invocations that may overlap

\* Two callers, each with a correctly signed archive of one release.
RaceArchives == {<<BinX, SigAX>>}
\* Invocations in one behaviour: one more than MaxCalls, so that two can meet.
RaceCalls == MaxCalls + 1

\* upgradeToURL is called; a caller that holds the lock waits for the other
\* invocation to return, one that does not calls at any time.
BeginRace(p) ==
    /\ guard => NoUpgradeInProgress
    /\ BeginWith(p, RaceCalls, {NameA}, RaceArchives)

InitRace ==
    /\ SelectionAtRest
    /\ goos \in {"linux", "windows"}
    /\ guard \in BOOLEAN
    /\ faults \in BOOLEAN
    /\ files \in {[q \in {Binary} |-> CurBytes],
                  [q \in {Binary, Old} |-> IF q = Binary THEN CurBytes ELSE PrevBytes]}
    /\ calls = 0
    /\ pc = [p \in Procs |-> "idle"]
    /\ archiveName = [p \in Procs |-> <<>>]
    /\ archive = [p \in Procs |-> <<>>]
    /\ i = [p \in Procs |-> 0]
    /\ tempName = [p \in Procs |-> NoName]
    /\ sig = [p \in Procs |-> NilSig]
    /\ err = [p \in Procs |-> ErrNil]
    /\ pre = [p \in Procs |-> NoFiles]
    /\ ops = [p \in Procs |-> <<>>]

NextRace ==
    \E p \in Procs :
        \/ BeginRace(p)
        \/ ScanTarGz(p)
        \/ ScanZip(p)
        \/ Verify(p)
        \/ RemoveOld(p)
        \/ RenameBackup(p)
        \/ RenamePromote(p)
        \/ Return(p)

SpecRace == InitRace /\ [][NextRace]_vars

\* The binary that was at the target path when p's invocation began is at the
\* target path or at the backup path.
PreviousBinaryKept(p) ==
    Exists(pre[p], Binary) =>
        \/ Exists(files, Binary) /\ files[Binary] = pre[p][Binary]
        \/ Exists(files, Old) /\ files[Old] = pre[p][Binary]

\* p's invocation has failed on one of its renames.
FailedOnRename(p) == pc[p] = "done" /\ err[p] \in {ErrRenameBackup, ErrRenamePromote}

\* C17: with the invocations serialized by the caller's lock, during and
\* after each invocation the binary that was at the target path when it
\* began is at the target path or at the backup path, a successful invocation
\* leaves it at the backup path, and, where the system refuses no remove or
\* rename it could do, no invocation fails on a rename.  (Without the lock
\* both fail: C17_Witness.)
C17_SerializedIsSafe ==
    guard =>
        \A p \in Procs :
            pc[p] # "idle" =>
                /\ PreviousBinaryKept(p)
                /\ (pc[p] = "done" /\ err[p] = ErrNil) =>
                      (Exists(files, Old) /\ files[Old] = pre[p][Binary])
                /\ ~faults => ~FailedOnRename(p)

\* Without the lock, and with a system that refuses nothing: one invocation
\* has installed its binary and the binary that was running when it began is
\* at neither path, and the other has failed on its backup rename although
\* its archive verified.
C17_Witness ==
    /\ ~guard
    /\ ~faults
    /\ \E p, q \in Procs :
        /\ p # q
        /\ pc[p] = "done"
        /\ err[p] = ErrNil
        /\ pre[p][Binary] = CurBytes
        /\ ~PreviousBinaryKept(p)
        /\ ~Exists(files, Old)
        /\ pc[q] = "done"
        /\ err[q] = ErrRenameBackup
        /\ VerifiedNew(q, files[tempName[q]])

\* ------------------------------------------------ the temp file's claims

\* The temp files on disk that were not there when p's invocation began.
TempFilesLeftBy(p) == {t \in TempNames : Exists(files, t) /\ ~Exists(pre[p], t)}

\* C18 as stated: once an invocation has ended in a signature failure or in
\* a successful install, no temp file it created is left in the directory.
C18_NoTempFileLeft ==
    \A p \in Procs :
        (pc[p] = "done" /\ err[p] \in {ErrNil, ErrSignature}) => TempFilesLeftBy(p) = {}

\* ---------------------------------------------- the scan's stopping point

\* The member's path ends in the segment release.sig.
NamedSignature(name) ==
    /\ name[Len(name)] = "release.sig"
    /\ Len(name) = 1 \/ name[Len(name) - 1] = "/"

\* The members of p's archive handed to archiveFileVisitor so far.
Taken(p) ==
    {k \in 1..i[p] : k <= Len(archive[p]) /\ archive[p][k].size <= maxBinarySize}

\* Those of them accepted as the binary, and those named release.sig.
TakenBinaries(p) == {k \in Taken(p) : TopOrOneDirDeep(archive[p][k].name)}
TakenSignatures(p) == {k \in Taken(p) : NamedSignature(archive[p][k].name)}

\* The last place of a non-empty set of places.
LastOf(S) == CHOOSE k \in S : \A j \in S : j <= k

\* Among the members of p's archive before the one the scan took last are a
\* binary and a signature, within the size limit or not.
BothBeforeLast(p) ==
    /\ \E a \in 1..(i[p] - 1) :
          a <= Len(archive[p]) /\ TopOrOneDirDeep(archive[p][a].name)
    /\ \E b \in 1..(i[p] - 1) :
          b <= Len(archive[p]) /\ NamedSignature(archive[p][b].name)

\* C19: the scan takes no member after the first place by which the archive
\* has shown both a binary and a signature; and, I/O errors aside, what is
\* held at any time is the last binary and the last signature among the
\* members taken (a later one replaces an earlier one), which are the ones
\* verified and, on success, installed.
C19_ScanStopsWhenBothHeld ==
    \A p \in Procs :
        LET binaries == TakenBinaries(p)
            signatures == TakenSignatures(p)
        IN  /\ ~BothBeforeLast(p)
            /\ (pc[p] # "idle" /\ err[p] \notin IOErrors) =>
                  /\ tempName[p] # NoName <=> binaries # {}
                  /\ sig[p] # NilSig <=> signatures # {}
                  /\ (tempName[p] # NoName /\ Exists(files, tempName[p])) =>
                        files[tempName[p]] = archive[p][LastOf(binaries)].data
                  /\ sig[p] # NilSig => sig[p] = archive[p][LastOf(signatures)].data
                  /\ (pc[p] = "done" /\ err[p] = ErrNil) =>
                        /\ files[Binary] = archive[p][LastOf(binaries)].data
                        /\ SignatureVerify(sig[p], Payload(archiveName[p], files[Binary]))

\* A binary after the point where both were held was not read: the first
\* binary is installed.
C19_Witness ==
    \E p \in Procs :
        /\ pc[p] = "done"
        /\ err[p] = ErrNil
        /\ archive[p] = <<BinX, SigAX, BinY>>
        /\ i[p] = 2
        /\ files[Binary] = XBytes

\* --------------------------------------------------- the order among ties

\* The candidates of the given list that no candidate exceeds in version.
BestCandidates ==
    {k \in Candidates : \A j \in Candidates : CompareVersions(given[j].Tag, given[k].Tag) <= 0}

\* C20 as stated: the release returned is the first, in the order of the
\* input, of the eligible releases with a platform asset that have the
\* highest version.
C20_TiesKeepInputOrder ==
    (Returned /\ selected.err = ErrNil) => selected.rel = given[FirstOf(BestCandidates)]
====
